---- MODULE Spec2Model ----
(***************************************************************************)
(* A model of python-face-recognition.py: the FacialRecognitionEngine      *)
(* (load_model, save_model, train, recognize), process_directory and the   *)
(* command line dispatch.                                                  *)
(*                                                                         *)
(* The external libraries are modelled by what the program observes of    *)
(* them.  A face embedding is a point on a line and the distance between  *)
(* two embeddings is their absolute difference (the Euclidean metric in   *)
(* one dimension); distances and tolerances are counted in tenths, so the *)
(* default tolerance 0.6 is 6.  An image is either unreadable (decoding   *)
(* raises) or a sequence of embeddings, one per detected face.  A person  *)
(* name is a number; the order of the numbers is the sort order of the    *)
(* names (the classifier breaks a vote tie by the smallest class).        *)
(* The model file is a sequence of numbers written by Pickle and parsed   *)
(* by Unpickle.  The file system is assumed to accept every write.        *)
(***************************************************************************)
EXTENDS Integers, Sequences, FiniteSets

\* ----------------------------------------------------------------- bounds
MaxFaces == 3          \* faces in one image
MaxFiles == 2          \* files in one person directory, for a single call of train
MaxBatch == 2          \* files in a directory given to process_directory
MaxRetrain == 3        \* images of one person, for the life cycle and for recognize

\* ------------------------------------------------------ program constants
DefaultTolerance == 6  \* tolerance=0.6, in tenths
MaxNeighbors == 5      \* min(5, len(face_encodings))

PersonNames == {1, 2}
Embeddings == {0, DefaultTolerance, DefaultTolerance + 1}
Tolerances == {DefaultTolerance - 1, DefaultTolerance, DefaultTolerance + 1}

\* ------------------------------------------------------------- utilities
Min(a, b) == IF a <= b THEN a ELSE b

Abs(a) == IF a < 0 THEN 0 - a ELSE a

Range(s) == {s[i] : i \in 1..Len(s)}

SeqsUpTo(S, n) == UNION {[1..k -> S] : k \in 0..n}

\* ------------------------------------------------------------ the objects
\* self.model = None
None == [kind |-> "None"]

\* An unpickled object that is no classifier (any other truthy Python object).
Other == [kind |-> "other"]

\* KNeighborsClassifier(n_neighbors=k).fit(X, y)
Fit(k, X, y) == [kind |-> "knn", n_neighbors |-> k, X |-> X, y |-> y]

\* Python truth of self.model: None is false, any estimator or object is true.
Truthy(m) == m.kind # "None"

\* ------------------------------------------------------------- the pickle
\* Pickle with the samples and the labels written in the wrong order.
Pickle_swapped(m) ==
    CASE m.kind = "None"  -> <<0>>
      [] m.kind = "other" -> <<2>>
      [] m.kind = "knn"   -> <<1, m.n_neighbors, Len(m.X)>> \o m.y \o m.X

\* pickle.dump: the bytes written for an object.
Pickle(m) ==
    CASE m.kind = "None"  -> <<0>>
      [] m.kind = "other" -> <<2>>
      [] m.kind = "knn"   -> <<1, m.n_neighbors, Len(m.X)>> \o m.X \o m.y

\* pickle.load: the object read back, or a raised exception.
Unpickle(b) ==
    IF b = <<0>> THEN [ok |-> TRUE, obj |-> None]
    ELSE IF b = <<2>> THEN [ok |-> TRUE, obj |-> Other]
    ELSE IF /\ Len(b) >= 3
            /\ b[1] = 1
            /\ Len(b) = 3 + 2 * b[3]
         THEN [ok |-> TRUE,
               obj |-> Fit(b[2], SubSeq(b, 4, 3 + b[3]),
                           SubSeq(b, 4 + b[3], 3 + 2 * b[3]))]
         ELSE [ok |-> FALSE, obj |-> None]

NoFile == [exists |-> FALSE, bytes |-> <<>>]

FileOf(b) == [exists |-> TRUE, bytes |-> b]

\* load_model: the model held afterwards and the value returned.
load_model_result(m, f) ==
    IF f.exists
    THEN IF Unpickle(f.bytes).ok
         THEN [model |-> Unpickle(f.bytes).obj, ret |-> TRUE]
         ELSE [model |-> m, ret |-> FALSE]
    ELSE [model |-> m, ret |-> FALSE]

\* save_model: the file written.
save_model_result(m) == FileOf(Pickle(m))

\* __init__: self.model = None, then load_model().
init_result(f) == load_model_result(None, f).model

\* ------------------------------------------------------------- the images
Unreadable == [readable |-> FALSE, faces |-> <<>>]

ImageOf(fs) == [readable |-> TRUE, faces |-> fs]

Images == {Unreadable} \cup {ImageOf(fs) : fs \in SeqsUpTo(Embeddings, MaxFaces)}

\* str.lower() on the extensions that occur.
Lower(ext) ==
    CASE ext = "JPG"  -> "jpg"
      [] ext = "PNG"  -> "png"
      [] ext = "JPEG" -> "jpeg"
      [] OTHER        -> ext

\* image_path.lower().endswith(('.png', '.jpg', '.jpeg'))
HasImageExtension(ext) == Lower(ext) \in {"png", "jpg", "jpeg"}

\* ------------------------------------------------------------- the KNN
Distance(a, b) == Abs(a - b)

\* The sample indices ordered by distance to e, nearest first (ties by index).
RECURSIVE NearestFrom(_, _, _)
NearestFrom(m, e, left) ==
    IF left = {} THEN <<>>
    ELSE LET i == CHOOSE i \in left : \A j \in left :
                      \/ Distance(m.X[i], e) < Distance(m.X[j], e)
                      \/ Distance(m.X[i], e) = Distance(m.X[j], e) /\ i <= j
         IN <<i>> \o NearestFrom(m, e, left \ {i})

\* model.kneighbors([e], n_neighbors=k): the distances and indices of the k nearest.
kneighbors(m, e, k) ==
    LET order == SubSeq(NearestFrom(m, e, 1..Len(m.X)), 1, k)
    IN [distances |-> [i \in 1..k |-> Distance(m.X[order[i]], e)],
        indices |-> order]

\* model.predict([e])[0]: the most common label among the n_neighbors nearest,
\* the smallest label on a tie.
predict(m, e) ==
    LET near == kneighbors(m, e, m.n_neighbors).indices
        votes(l) == Cardinality({i \in 1..Len(near) : m.y[near[i]] = l})
        labels == {m.y[near[i]] : i \in 1..Len(near)}
    IN CHOOSE l \in labels : \A o \in labels :
           \/ votes(l) > votes(o)
           \/ votes(l) = votes(o) /\ l <= o

\* --------------------------------------------------------------- recognize
\* recognize_faces with the match decided by < instead of <=.
RECURSIVE recognize_faces_strict(_, _, _, _)
recognize_faces_strict(m, faces, tolerance, found) ==
    IF faces = <<>> THEN found
    ELSE LET face_encoding == Head(faces)
             closest_distances == kneighbors(m, face_encoding, 1).distances
             is_match == closest_distances[1] < tolerance
             person_name == predict(m, face_encoding)
         IN recognize_faces_strict(m, Tail(faces), tolerance,
                IF is_match /\ person_name \notin Range(found)
                THEN Append(found, person_name)
                ELSE found)

\* recognize_faces without the test `person_name not in people_found`.
RECURSIVE recognize_faces_repeats(_, _, _, _)
recognize_faces_repeats(m, faces, tolerance, found) ==
    IF faces = <<>> THEN found
    ELSE LET face_encoding == Head(faces)
             closest_distances == kneighbors(m, face_encoding, 1).distances
             is_match == closest_distances[1] <= tolerance
             person_name == predict(m, face_encoding)
         IN recognize_faces_repeats(m, Tail(faces), tolerance,
                IF is_match THEN Append(found, person_name) ELSE found)

\* The for loop of recognize over the face encodings, from people_found = found.
RECURSIVE recognize_faces(_, _, _, _)
recognize_faces(m, faces, tolerance, found) ==
    IF faces = <<>> THEN found
    ELSE LET face_encoding == Head(faces)
             closest_distances == kneighbors(m, face_encoding, 1).distances
             is_match == closest_distances[1] <= tolerance
             person_name == predict(m, face_encoding)
         IN recognize_faces(m, Tail(faces), tolerance,
                IF is_match /\ person_name \notin Range(found)
                THEN Append(found, person_name)
                ELSE found)

\* recognize raising, instead of returning [], when there is no model.
recognize_result_raises(m, image, tolerance) ==
    IF ~Truthy(m) THEN [raised |-> TRUE, value |-> <<>>]
    ELSE IF ~image.readable THEN [raised |-> FALSE, value |-> <<>>]
    ELSE IF m.kind # "knn"
         THEN [raised |-> FALSE, value |-> <<>>]
         ELSE [raised |-> FALSE,
               value |-> recognize_faces(m, image.faces, tolerance, <<>>)]

\* recognize(image_path, tolerance): whether it raised and the list returned.
\* Decoding an unreadable image raises inside the try, and so does kneighbors
\* on an object that is no classifier; both end in the except branch.
recognize_result(m, image, tolerance) ==
    IF ~Truthy(m) THEN [raised |-> FALSE, value |-> <<>>]
    ELSE IF ~image.readable THEN [raised |-> FALSE, value |-> <<>>]
    ELSE IF m.kind # "knn"
         THEN [raised |-> FALSE, value |-> <<>>]
         ELSE [raised |-> FALSE,
               value |-> recognize_faces(m, image.faces, tolerance, <<>>)]

\* ------------------------------------------------------------------- train
NoSamples == [encodings |-> <<>>, names |-> <<>>]

\* train_files leaving the loop at the first image that fails to decode or
\* shows no face, instead of going on to the next.
RECURSIVE train_files_stop(_, _, _)
train_files_stop(files, person_name, acc) ==
    IF files = <<>> THEN acc
    ELSE LET file == Head(files)
             encodings == file.image.faces
         IN IF ~HasImageExtension(file.ext)
            THEN train_files_stop(Tail(files), person_name, acc)
            ELSE IF file.image.readable /\ Len(encodings) > 0
                 THEN train_files_stop(Tail(files), person_name,
                          [encodings |-> Append(acc.encodings, encodings[1]),
                           names |-> Append(acc.names, person_name)])
                 ELSE acc

\* The inner loop of train over the files of one person directory.
RECURSIVE train_files(_, _, _)
train_files(files, person_name, acc) ==
    IF files = <<>> THEN acc
    ELSE LET file == Head(files)
             encodings == file.image.faces
             next == IF /\ HasImageExtension(file.ext)
                        /\ file.image.readable
                        /\ Len(encodings) > 0
                     THEN [encodings |-> Append(acc.encodings, encodings[1]),
                           names |-> Append(acc.names, person_name)]
                     ELSE acc
         IN train_files(Tail(files), person_name, next)

\* The outer loop of train over the entries of training_dir.
RECURSIVE train_entries(_, _)
train_entries(entries, acc) ==
    IF entries = <<>> THEN acc
    ELSE LET entry == Head(entries)
         IN train_entries(Tail(entries),
                IF entry.isdir
                THEN train_files(entry.files, entry.name, acc)
                ELSE acc)

\* train calling save_model after the if, so also when nothing was collected.
train_result_always_saves(m, f, training_dir) ==
    LET data == train_entries(training_dir, NoSamples)
        n == Len(data.encodings)
        fitted == Fit(Min(MaxNeighbors, n), data.encodings, data.names)
    IN IF n > 0
       THEN [model |-> fitted, file |-> save_model_result(fitted), count |-> n]
       ELSE [model |-> m, file |-> save_model_result(m), count |-> 0]

\* train adding the new samples to those of the classifier it already holds.
train_result_incremental(m, f, training_dir) ==
    LET data == train_entries(training_dir, NoSamples)
        n == Len(data.encodings)
        X == IF m.kind = "knn" THEN m.X \o data.encodings ELSE data.encodings
        y == IF m.kind = "knn" THEN m.y \o data.names ELSE data.names
        fitted == Fit(Min(MaxNeighbors, Len(X)), X, y)
    IN IF n > 0
       THEN [model |-> fitted, file |-> save_model_result(fitted), count |-> n]
       ELSE [model |-> m, file |-> f, count |-> 0]

\* train(training_dir): the model and the file afterwards, and the count returned.
train_result(m, f, training_dir) ==
    LET data == train_entries(training_dir, NoSamples)
        n == Len(data.encodings)
        fitted == Fit(Min(MaxNeighbors, n), data.encodings, data.names)
    IN IF n > 0
       THEN [model |-> fitted, file |-> save_model_result(fitted), count |-> n]
       ELSE [model |-> m, file |-> f, count |-> 0]

\* ------------------------------------------------------- process_directory
\* results[filename] = value on a dict that keeps insertion order.
DictSet(results, key, value) ==
    IF \E i \in 1..Len(results) : results[i].key = key
    THEN [i \in 1..Len(results) |->
             IF results[i].key = key
             THEN [key |-> key, value |-> value]
             ELSE results[i]]
    ELSE Append(results, [key |-> key, value |-> value])

\* The loop of process_directory; engine.recognize is called without a tolerance.
RECURSIVE process_files(_, _, _)
process_files(m, files, results) ==
    IF files = <<>> THEN results
    ELSE LET file == Head(files)
             r == recognize_result(m, file.image, DefaultTolerance)
         IN process_files(m, Tail(files),
                IF ~HasImageExtension(file.ext) THEN results
                ELSE IF r.raised
                     THEN DictSet(results, file.name,
                                  [error |-> TRUE, people |-> <<>>])
                     ELSE DictSet(results, file.name,
                                  [error |-> FALSE, people |-> r.value]))

\* process_directory(engine, directory_path, json_output)
process_directory_result(m, directory, json_output) ==
    [json |-> json_output, results |-> process_files(m, directory, <<>>)]

\* ---------------------------------------------------------------- __main__
\* An optional path argument: absent (None), the empty string, or a path.
NoArg == [kind |-> "None", target |-> <<>>]

EmptyArg == [kind |-> "empty", target |-> <<>>]

PathArg(t) == [kind |-> "path", target |-> t]

\* Python truth of args.train, args.recognize, args.process_dir.
ArgTruthy(a) == a.kind = "path"

\* --tolerance, type=float, default=0.6
ToleranceArg(a) == IF a.given THEN a.value ELSE DefaultTolerance

NoOutput == [count |-> 0, people |-> <<>>, results |-> <<>>]

\* The script body with the recognize branch tested before the train branch.
main_result_recognize_first(f, argv) ==
    LET m == init_result(f)
        tolerance == ToleranceArg(argv.tolerance)
    IN IF ArgTruthy(argv.recognize)
       THEN LET r == recognize_result(m, argv.recognize.target, tolerance)
            IN [model |-> m, file |-> f,
                calls |-> <<"load_model", "recognize">>,
                stdout |-> [NoOutput EXCEPT !.people = r.value]]
       ELSE IF ArgTruthy(argv.train)
       THEN LET t == train_result(m, f, argv.train.target)
            IN [model |-> t.model, file |-> t.file,
                calls |-> <<"load_model", "train">>,
                stdout |-> [NoOutput EXCEPT !.count = t.count]]
       ELSE IF ArgTruthy(argv.process_dir)
       THEN LET p == process_directory_result(m, argv.process_dir.target, TRUE)
            IN [model |-> m, file |-> f,
                calls |-> <<"load_model", "process_directory">>,
                stdout |-> [NoOutput EXCEPT !.results = p.results]]
       ELSE [model |-> m, file |-> f,
             calls |-> <<"load_model", "print_help">>,
             stdout |-> NoOutput]

\* The script body: build the engine, then the if/elif chain.  calls lists
\* the engine operations made, stdout what was printed.
main_result(f, argv) ==
    LET m == init_result(f)
        tolerance == ToleranceArg(argv.tolerance)
    IN IF ArgTruthy(argv.train)
       THEN LET t == train_result(m, f, argv.train.target)
            IN [model |-> t.model, file |-> t.file,
                calls |-> <<"load_model", "train">>,
                stdout |-> [NoOutput EXCEPT !.count = t.count]]
       ELSE IF ArgTruthy(argv.recognize)
       THEN LET r == recognize_result(m, argv.recognize.target, tolerance)
            IN [model |-> m, file |-> f,
                calls |-> <<"load_model", "recognize">>,
                stdout |-> [NoOutput EXCEPT !.people = r.value]]
       ELSE IF ArgTruthy(argv.process_dir)
       THEN LET p == process_directory_result(m, argv.process_dir.target, TRUE)
            IN [model |-> m, file |-> f,
                calls |-> <<"load_model", "process_directory">>,
                stdout |-> [NoOutput EXCEPT !.results = p.results]]
       ELSE [model |-> m, file |-> f,
             calls |-> <<"load_model", "print_help">>,
             stdout |-> NoOutput]

\* ------------------------------------------------------------------ inputs
\* Person 1's face is at 0 and person 2's at DefaultTolerance + 1.
FaceOf(p) == IF p = 1 THEN 0 ELSE DefaultTolerance + 1

\* A person directory holding n one-face images, each with embedding e.
PersonDirAt(p, e, n) ==
    [name |-> p, isdir |-> TRUE,
     files |-> [i \in 1..n |-> [ext |-> "jpg", image |-> ImageOf(<<e>>)]]]

PersonDir(p, n) == PersonDirAt(p, FaceOf(p), n)

\* Sequences of at most two entries with distinct names.
DistinctPairs(E) ==
    {<<>>} \cup {<<a>> : a \in E}
           \cup {<<p[1], p[2]>> : p \in {q \in E \X E : q[1].name # q[2].name}}

\* The training directories of the life cycle: up to MaxRetrain images a person.
RetrainDirs == DistinctPairs({PersonDir(p, n) : p \in PersonNames, n \in 0..MaxRetrain})

\* The training directories behind the classifiers that recognize is tried on:
\* either person at either end of the line.
ClassifierDirs ==
    DistinctPairs({PersonDirAt(p, e, n) : p \in PersonNames,
                                          e \in {0, DefaultTolerance + 1},
                                          n \in 1..MaxRetrain})

\* The images recognize is given in the life cycle.
LifeImages == {Unreadable, ImageOf(<<>>), ImageOf(<<0>>), ImageOf(<<DefaultTolerance, 0>>)}

\* The files of the training directories of a single call: a skipped extension,
\* an unreadable image, an image without a face, one face, two faces.
TrainFiles ==
    {[ext |-> "txt", image |-> ImageOf(<<0>>)],
     [ext |-> "JPG", image |-> Unreadable],
     [ext |-> "png", image |-> ImageOf(<<>>)],
     [ext |-> "jpg", image |-> ImageOf(<<0>>)],
     [ext |-> "JPEG", image |-> ImageOf(<<DefaultTolerance + 1, 0>>)]}

TrainEntries ==
    {[name |-> p, isdir |-> FALSE, files |-> <<>>] : p \in PersonNames}
    \cup {[name |-> p, isdir |-> TRUE, files |-> fs] :
              p \in PersonNames, fs \in SeqsUpTo(TrainFiles, MaxFiles)}

TrainingDirs == DistinctPairs(TrainEntries)

\* The directories given to process_directory: files with distinct names.
BatchImages ==
    {Unreadable, ImageOf(<<>>), ImageOf(<<0>>), ImageOf(<<DefaultTolerance>>),
     ImageOf(<<DefaultTolerance + 1, 0>>)}

BatchFiles(name) ==
    {[name |-> name, ext |-> "txt", image |-> ImageOf(<<0>>)]}
    \cup {[name |-> name, ext |-> "jpg", image |-> i] : i \in BatchImages}

RECURSIVE BatchDirsOf(_, _)
BatchDirsOf(names, n) ==
    IF n = 0 THEN {<<>>}
    ELSE {<<>>} \cup UNION {{<<f>> \o rest : f \in BatchFiles(name),
                                         rest \in BatchDirsOf(names \ {name}, n - 1)} :
                           name \in names}

BatchDirs == BatchDirsOf(1..MaxBatch, MaxBatch)

\* The command lines.
MainImages == {Unreadable, ImageOf(<<DefaultTolerance>>), ImageOf(<<DefaultTolerance + 1>>)}

MainBatchDirs ==
    {<<[name |-> 1, ext |-> "jpg", image |-> i]>> : i \in MainImages \ {Unreadable}}

MainArgs ==
    [train : {NoArg, EmptyArg, PathArg(<<PersonDir(2, 1)>>), PathArg(<<PersonDir(1, 0)>>)},
     recognize : {NoArg, EmptyArg} \cup {PathArg(i) : i \in MainImages},
     process_dir : {NoArg, EmptyArg} \cup {PathArg(d) : d \in MainBatchDirs},
     tolerance : {[given |-> FALSE, value |-> 0]}
                 \cup {[given |-> TRUE, value |-> t] : t \in Tolerances}]

\* The model files an engine may find: none, an empty or truncated file, the
\* pickle of None (save_model before any training), of another object, and of
\* classifiers that earlier trainings wrote.
SeedDirs ==
    {<<PersonDir(1, 1)>>,
     <<PersonDir(1, 1), PersonDir(2, 1)>>,
     <<PersonDir(2, 1), PersonDir(1, MaxRetrain)>>,
     <<PersonDir(1, MaxRetrain), PersonDir(2, MaxRetrain)>>}

InitialFiles ==
    {NoFile, FileOf(<<>>), FileOf(<<1, 1>>), FileOf(Pickle(None)), FileOf(Pickle(Other))}
    \cup {train_result(None, NoFile, d).file : d \in SeedDirs}

\* The model files that the trainings on ClassifierDirs wrote.
TrainedFiles == {train_result(None, NoFile, d).file : d \in ClassifierDirs \ {<<>>}}

\* ------------------------------------------------------------------- state
VARIABLES model,      \* self.model
          modelFile,  \* the file at self.model_path
          op,         \* the operation that ran last
          args,       \* its arguments
          ret,        \* what it returned or printed
          lastFit     \* the samples of the last training that collected any

vars == <<model, modelFile, op, args, ret, lastFit>>

NoArgs == [nothing |-> TRUE]

NoFit == [fitted |-> FALSE, replaced |-> FALSE, encodings |-> <<>>, names |-> <<>>]

\* The engine right after FacialRecognitionEngine(model_path).
Init ==
    /\ modelFile \in InitialFiles
    /\ model = init_result(modelFile)
    /\ op = "init"
    /\ args = NoArgs
    /\ ret = NoArgs
    /\ lastFit = NoFit

\* A new engine on the same model path (a later run of the program).
New ==
    /\ model' = init_result(modelFile)
    /\ op' = "new"
    /\ args' = NoArgs
    /\ ret' = NoArgs
    /\ UNCHANGED <<modelFile, lastFit>>

load_model ==
    /\ model' = load_model_result(model, modelFile).model
    /\ op' = "load_model"
    /\ args' = NoArgs
    /\ ret' = [value |-> load_model_result(model, modelFile).ret]
    /\ UNCHANGED <<modelFile, lastFit>>

save_model ==
    /\ modelFile' = save_model_result(model)
    /\ op' = "save_model"
    /\ args' = NoArgs
    /\ ret' = NoArgs
    /\ UNCHANGED <<model, lastFit>>

train(training_dir) ==
    LET t == train_result(model, modelFile, training_dir)
        data == train_entries(training_dir, NoSamples)
    IN /\ model' = t.model
       /\ modelFile' = t.file
       /\ op' = "train"
       /\ args' = [training_dir |-> training_dir]
       /\ ret' = [count |-> t.count]
       /\ lastFit' = IF Len(data.encodings) > 0
                     THEN [fitted |-> TRUE, replaced |-> model.kind = "knn",
                           encodings |-> data.encodings, names |-> data.names]
                     ELSE lastFit

recognize(image, tolerance) ==
    /\ op' = "recognize"
    /\ args' = [image |-> image, tolerance |-> tolerance]
    /\ ret' = recognize_result(model, image, tolerance)
    /\ UNCHANGED <<model, modelFile, lastFit>>

process_directory(directory, json_output) ==
    /\ op' = "process_directory"
    /\ args' = [directory |-> directory, json_output |-> json_output]
    /\ ret' = process_directory_result(model, directory, json_output)
    /\ UNCHANGED <<model, modelFile, lastFit>>

main(argv) ==
    LET r == main_result(modelFile, argv)
    IN /\ model' = r.model
       /\ modelFile' = r.file
       /\ op' = "main"
       /\ args' = argv
       /\ ret' = [calls |-> r.calls, stdout |-> r.stdout]
       /\ UNCHANGED lastFit

\* --------------------------------------------------------- specifications
\* The life cycle of an engine: any sequence of operations.
Retrain == \E d \in RetrainDirs : train(d)

Recognize == \E i \in LifeImages, t \in Tolerances : recognize(i, t)

Next == New \/ load_model \/ save_model \/ Retrain \/ Recognize

Spec == Init /\ [][Next]_vars

\* One call on a fresh engine, with the full range of its inputs.
TrainOnce == op = "init" /\ \E d \in TrainingDirs : train(d)

ProcessOnce ==
    op = "init" /\ \E d \in BatchDirs, j \in BOOLEAN : process_directory(d, j)

MainOnce == op = "init" /\ \E a \in MainArgs : main(a)

NextCall == TrainOnce \/ ProcessOnce \/ MainOnce

SpecCall == Init /\ [][NextCall]_vars

\* One call of recognize on an engine that loaded a trained classifier.
InitRecognize ==
    /\ modelFile \in TrainedFiles
    /\ model = init_result(modelFile)
    /\ op = "init"
    /\ args = NoArgs
    /\ ret = NoArgs
    /\ lastFit = NoFit

RecognizeOnce == op = "init" /\ \E i \in Images, t \in Tolerances : recognize(i, t)

SpecRecognize == InitRecognize /\ [][RecognizeOnce]_vars

\* ------------------------------------------------------------------ properties
\* The smallest distance from embedding e to a sample of classifier m.
NearestDistance(m, e) ==
    CHOOSE d \in {Distance(m.X[i], e) : i \in 1..Len(m.X)} :
        \A i \in 1..Len(m.X) : d <= Distance(m.X[i], e)

\* Face i of the image is within the tolerance of its nearest neighbour.
Matches(m, image, tolerance, i) == NearestDistance(m, image.faces[i]) <= tolerance

\* The faces of the image that match and are predicted as label l.
FacesOf(m, image, tolerance, l) ==
    {i \in 1..Len(image.faces) :
        Matches(m, image, tolerance, i) /\ predict(m, image.faces[i]) = l}

SetMin(S) == CHOOSE x \in S : \A y \in S : x <= y

\* The positions <<i, j>> of the files of training directory d that are
\* candidate images, decode, and show at least one face.
GoodFiles(d) ==
    UNION {{<<i, j>> : j \in {k \in 1..Len(d[i].files) :
                                /\ HasImageExtension(d[i].files[k].ext)
                                /\ d[i].files[k].image.readable
                                /\ Len(d[i].files[k].image.faces) > 0}} :
           i \in {k \in 1..Len(d) : d[k].isdir}}

\* The candidate image files of a batch directory, in listing order.
Candidates(directory) == SelectSeq(directory, LAMBDA f : HasImageExtension(f.ext))

\* C1: with a classifier loaded, process_directory on a directory with exactly
\* one unreadable image among valid ones returns one entry per candidate file,
\* in listing order: the labels for a valid image, an error record for the
\* unreadable one.
C1_BatchErrorEntry ==
    (/\ op = "process_directory"
     /\ model.kind = "knn"
     /\ Len(Candidates(args.directory)) > 1
     /\ Cardinality({i \in 1..Len(Candidates(args.directory)) :
                        ~Candidates(args.directory)[i].image.readable}) = 1)
    => LET files == Candidates(args.directory)
       IN /\ Len(ret.results) = Len(files)
          /\ \A i \in 1..Len(files) :
                /\ ret.results[i].key = files[i].name
                /\ ret.results[i].value.error = ~files[i].image.readable
                /\ files[i].image.readable =>
                      ret.results[i].value.people =
                          recognize_result(model, files[i].image, DefaultTolerance).value

\* C2: an engine built on a missing or undeserializable model file holds no
\* model, and recognize on an engine without a model returns the empty list,
\* does not raise, and leaves the model and the model file as they were.
C2_UntrainedRecognize ==
    /\ [](op \in {"init", "new"}
          /\ (~modelFile.exists \/ ~Unpickle(modelFile.bytes).ok)
          => model = None)
    /\ [][(op' = "recognize" /\ model = None)
          => /\ ret' = [raised |-> FALSE, value |-> <<>>]
             /\ model' = model
             /\ modelFile' = modelFile]_vars

C2_Witness ==
    /\ op = "recognize"
    /\ model = None
    /\ modelFile.exists
    /\ ~Unpickle(modelFile.bytes).ok
    /\ Len(args.image.faces) > 0

\* C3: recognize reports the predicted label of every face whose nearest
\* neighbour is at a distance <= tolerance (equality included), and every
\* label it reports comes from such a face.
C3_ToleranceBoundary ==
    (op = "recognize" /\ model.kind = "knn" /\ args.image.readable)
    => /\ \A i \in 1..Len(args.image.faces) :
             Matches(model, args.image, args.tolerance, i)
             => predict(model, args.image.faces[i]) \in Range(ret.value)
       /\ \A l \in Range(ret.value) :
             FacesOf(model, args.image, args.tolerance, l) # {}

C3_Witness ==
    /\ op = "recognize"
    /\ model.kind = "knn"
    /\ \E i, j \in 1..Len(args.image.faces) :
          /\ NearestDistance(model, args.image.faces[i]) = args.tolerance
          /\ NearestDistance(model, args.image.faces[j]) > args.tolerance
    /\ Len(ret.value) = 1

\* C4: the list recognize returns holds no label twice, and its labels are
\* in the order of the first face that matched each.
C4_NoDuplicates ==
    (op = "recognize" /\ model.kind = "knn" /\ args.image.readable)
    => \A p, q \in 1..Len(ret.value) :
          p < q =>
             /\ ret.value[p] # ret.value[q]
             /\ FacesOf(model, args.image, args.tolerance, ret.value[p]) # {}
             /\ FacesOf(model, args.image, args.tolerance, ret.value[q]) # {}
             /\ SetMin(FacesOf(model, args.image, args.tolerance, ret.value[p]))
                   < SetMin(FacesOf(model, args.image, args.tolerance, ret.value[q]))

C4_Witness ==
    /\ op = "recognize"
    /\ model.kind = "knn"
    /\ \E l \in PersonNames :
          Cardinality(FacesOf(model, args.image, args.tolerance, l)) >= 2
    /\ Len(ret.value) = 1

\* C5: train returns the number of candidate image files that decode and show
\* a face; the fitted classifier has one sample per such file, its first
\* embedding under the name of its directory, so its labels are the names of
\* the directories that hold such a file.  Other files add nothing and stop
\* nothing.
C5_TrainCount ==
    op = "train"
    => LET d == args.training_dir
           good == GoodFiles(d)
       IN /\ ret.count = Cardinality(good)
          /\ good # {} =>
                /\ model.kind = "knn"
                /\ Len(model.X) = Cardinality(good)
                /\ Len(model.y) = Cardinality(good)
                /\ Range(model.y) = {d[p[1]].name : p \in good}
                /\ \A e \in Embeddings, l \in PersonNames :
                      Cardinality({i \in 1..Len(model.X) :
                                      model.X[i] = e /\ model.y[i] = l})
                      = Cardinality({p \in good :
                                      /\ d[p[1]].files[p[2]].image.faces[1] = e
                                      /\ d[p[1]].name = l})

C5_Witness ==
    /\ op = "train"
    /\ ret.count = 2
    /\ Len(args.training_dir) = 2
    /\ \E i \in 1..2 :
          /\ args.training_dir[i].isdir
          /\ Len(args.training_dir[i].files) = 2
          /\ ~args.training_dir[i].files[1].image.readable
          /\ Len(args.training_dir[i].files[2].image.faces) = 2
    /\ Range(model.y) = PersonNames

\* C6: a train call that finds no face in any candidate image returns 0 and
\* leaves the classifier in memory and the model file as they were.
C6_ZeroSamplesFrame ==
    [][(op' = "train" /\ GoodFiles(args'.training_dir) = {})
       => /\ ret'.count = 0
          /\ model' = model
          /\ modelFile' = modelFile]_vars

C6_Witness ==
    /\ op = "train"
    /\ ret.count = 0
    /\ model.kind = "knn"
    /\ modelFile.exists
    /\ \E i \in 1..Len(args.training_dir) :
          /\ args.training_dir[i].isdir
          /\ Len(args.training_dir[i].files) > 0

C8_RetrainReplaces ==
    lastFit.fitted
    => /\ model.kind = "knn"
       /\ model.X = lastFit.encodings
       /\ model.y = lastFit.names
       /\ model.n_neighbors = Min(MaxNeighbors, Len(lastFit.encodings))
       /\ modelFile.exists
       /\ Unpickle(modelFile.bytes).ok
       /\ Unpickle(modelFile.bytes).obj = model

C8_Witness ==
    /\ op = "train"
    /\ ret.count > 0
    /\ lastFit.replaced
    /\ Len(model.X) > MaxNeighbors
    /\ model.n_neighbors = MaxNeighbors

\* The people recognized in each candidate file of a directory at a tolerance.
ResultsAt(m, directory, tolerance) ==
    [i \in 1..Len(Candidates(directory)) |->
        recognize_result(m, Candidates(directory)[i].image, tolerance).value]

\* C9: the tolerance of the command line is the one every recognition of the
\* dispatched command uses, in --recognize and in --process-dir mode.
C9_ToleranceApplied ==
    op = "main"
    => /\ ret.calls[2] = "recognize" =>
             ret.stdout.people =
                 recognize_result(model, args.recognize.target,
                                  ToleranceArg(args.tolerance)).value
       /\ ret.calls[2] = "process_directory" =>
             [i \in 1..Len(ret.stdout.results) |-> ret.stdout.results[i].value.people]
                 = ResultsAt(model, args.process_dir.target,
                             ToleranceArg(args.tolerance))

\* The action of the first flag that counts, in the order train, recognize, process-dir, help.
Dispatched(train_given, recognize_given, process_dir_given) ==
    IF train_given THEN "train"
    ELSE IF recognize_given THEN "recognize"
    ELSE IF process_dir_given THEN "process_directory"
    ELSE "print_help"

\* Exactly the action `action` ran after the engine was built.
RanOnly(action) ==
    /\ ret.calls = <<"load_model", action>>
    /\ action # "train" => ret.stdout.count = 0
    /\ action # "recognize" => ret.stdout.people = <<>>
    /\ action # "process_directory" => ret.stdout.results = <<>>

IsPresent(a) == a.kind # "None"

\* C10 as stated: one action per invocation, that of the first flag present
\* on the command line in the order train, recognize, process-dir, else help.
C10_PriorityOfPresentFlags ==
    op = "main"
    => RanOnly(Dispatched(IsPresent(args.train), IsPresent(args.recognize),
                          IsPresent(args.process_dir)))

\* C10 as amended: a flag counts when it is given a non-empty value.
C10_PriorityOfNonEmptyFlags ==
    op = "main"
    => RanOnly(Dispatched(ArgTruthy(args.train), ArgTruthy(args.recognize),
                          ArgTruthy(args.process_dir)))

C10_Witness ==
    /\ op = "main"
    /\ ArgTruthy(args.train)
    /\ ArgTruthy(args.recognize)
    /\ ArgTruthy(args.process_dir)
    /\ ret.calls = <<"load_model", "train">>
    /\ ret.stdout.count > 0

====
